---- MODULE Spec2Model ----
(***************************************************************************)
(* A model of pytao (src/pytao/tao.py): the command channel, the           *)
(* structured "python" query with its N+2 round trips, the field decoder,  *)
(* the array folding pass and the list / matrix extractors; and of the     *)
(* output capture (src/pytao/capture.py).                                  *)
(*                                                                         *)
(* Python strings are modelled as sequences of one-character strings, so   *)
(* that split, join, lower, regular-expression matching and number         *)
(* parsing are computed character by character.                            *)
(***************************************************************************)
EXTENDS Integers, Sequences, FiniteSets, TLC

VARIABLES
    pc,            \* position of the caller inside Tao.command / Tao.python
    op,            \* the method the caller is in: "command" or "python"
    cmd_args,      \* the *command arguments of the call in progress
    calls,         \* transport calls (self.pipe.*) made by the call in progress
    logged,        \* lines the call in progress handed to self.command_log
    command_log,   \* whether Tao was constructed with a command log
    remote,        \* the engine process: "up" or "crashed"
    scratch,       \* the engine's scratch buffer: the result lines of the last query
    n_lines,       \* python(): the value scratch_n_lines() returned
    acc,           \* python(): the list under construction
    ret,           \* what the call returned or raised
    data,          \* decoders: the list of field lists handed to a decoder
    out,           \* decoders: what the decoder returned or raised
    warnings,      \* decoders: records handed to logging.getLogger(__name__).warn
    strict,        \* the strictness the caller wishes for array inconsistencies;
                   \* tao.py has no parameter, attribute or global to carry
                   \* it, so no operation reads it
    fds,           \* capture: the process's descriptor table
    pipes,         \* capture: the kernel buffer of every pipe created so far
    cio,           \* capture: the attributes of the CaptureIO object in use
    cpc,           \* capture: position of the caller inside capture()
    func,          \* capture: the callable handed to capture()
    todo,          \* capture: the bytes func has still to write to fd 1
    cout,          \* capture: the local `out` of CaptureIO.read
    cret,          \* capture: what capture() returned or raised
    fd_before      \* capture: what fd 1 referred to when capture() was called

vars == <<pc, op, cmd_args, calls, logged, command_log, remote, scratch, n_lines,
          acc, ret, data, out, warnings, strict,
          fds, pipes, cio, cpc, func, todo, cout, cret, fd_before>>

chanVars == <<pc, op, cmd_args, calls, logged, command_log, remote, scratch,
              n_lines, acc, ret>>

decVars == <<data, out, warnings, strict>>

capVars == <<fds, pipes, cio, cpc, func, todo, cout, cret, fd_before>>

(***************************************************************************)
(* Bounds of the model.                                                    *)
(***************************************************************************)
MaxLines == 3

MaxItems == 3

MaxIndex == 3

MaxRows == 2

FracDigits == 1

\* the process's limit on open descriptors (RLIMIT_NOFILE)
MaxFds == 11

\* the bytes a pipe's kernel buffer holds before a write to it blocks
PipeCapacity == 4096

(***************************************************************************)
(* Characters and strings.                                                 *)
(***************************************************************************)
Digits == <<"0", "1", "2", "3", "4", "5", "6", "7", "8", "9">>

UpperCase == <<"A", "B", "C", "D", "E", "F", "G", "H", "I", "J", "K", "L", "M",
               "N", "O", "P", "Q", "R", "S", "T", "U", "V", "W", "X", "Y", "Z">>

LowerCase == <<"a", "b", "c", "d", "e", "f", "g", "h", "i", "j", "k", "l", "m",
               "n", "o", "p", "q", "r", "s", "t", "u", "v", "w", "x", "y", "z">>

IsDigit(c) == \E i \in 1..Len(Digits) : Digits[i] = c

DigitVal(c) == (CHOOSE i \in 1..Len(Digits) : Digits[i] = c) - 1

AllDigits(s) == \A i \in 1..Len(s) : IsDigit(s[i])

RECURSIVE DigitsVal(_)
DigitsVal(s) ==
    IF s = <<>> THEN 0
    ELSE 10 * DigitsVal(SubSeq(s, 1, Len(s) - 1)) + DigitVal(s[Len(s)])

RECURSIVE NatStr(_)
NatStr(n) ==
    IF n < 10 THEN <<Digits[n + 1]>>
    ELSE NatStr(n \div 10) \o <<Digits[(n % 10) + 1]>>

IntStr(n) == IF n < 0 THEN <<"-">> \o NatStr(0 - n) ELSE NatStr(n)

RECURSIVE Pow10(_)
Pow10(k) == IF k = 0 THEN 1 ELSE 10 * Pow10(k - 1)

RECURSIVE Zeros(_)
Zeros(k) == IF k <= 0 THEN <<>> ELSE <<"0">> \o Zeros(k - 1)

\* str.lower()
LowerChar(c) ==
    IF \E i \in 1..Len(UpperCase) : UpperCase[i] = c
    THEN LowerCase[CHOOSE i \in 1..Len(UpperCase) : UpperCase[i] = c]
    ELSE c

lower(s) == [i \in 1..Len(s) |-> LowerChar(s[i])]

\* str.strip() of blanks
RECURSIVE lstrip(_)
lstrip(s) == IF s # <<>> /\ s[1] = " " THEN lstrip(Tail(s)) ELSE s

RECURSIVE rstrip(_)
rstrip(s) ==
    IF s # <<>> /\ s[Len(s)] = " " THEN rstrip(SubSeq(s, 1, Len(s) - 1)) ELSE s

strip(s) == rstrip(lstrip(s))

\* str.split(sep) for a one-character separator: always at least one piece
RECURSIVE split(_, _)
split(s, sep) ==
    IF \E i \in 1..Len(s) : s[i] = sep
    THEN LET i == CHOOSE j \in 1..Len(s) :
                      s[j] = sep /\ \A k \in 1..(j - 1) : s[k] # sep
         IN  <<SubSeq(s, 1, i - 1)>> \o split(SubSeq(s, i + 1, Len(s)), sep)
    ELSE <<s>>

\* sep.join(parts)
RECURSIVE join(_, _)
join(sep, parts) ==
    IF parts = <<>> THEN <<>>
    ELSE IF Len(parts) = 1 THEN parts[1]
    ELSE parts[1] \o sep \o join(sep, Tail(parts))

(***************************************************************************)
(* Python values: tagged records, one field name per type.                 *)
(***************************************************************************)
VStr(s) == [t |-> "str", s |-> s]

VInt(i) == [t |-> "int", i |-> i]

VBool(b) == [t |-> "bool", b |-> b]

\* a float, held as the integer  value * 10^FracDigits
VFloat(f) == [t |-> "float", f |-> f]

VList(l) == [t |-> "list", l |-> l]

NoneVal == [t |-> "None"]

Raise(e) == [t |-> "raise", exc |-> e]

IsRaise(v) == v.t = "raise"

\* Parameter = namedtuple('Parameter', ['name', 'value', 'vary'])
Parameter(name, value, vary) ==
    [t |-> "Parameter", name |-> name, value |-> value, vary |-> vary]

\* int(text) of the builtin: blanks stripped, an optional sign, digits
ParseInt(s) ==
    LET b == strip(s)
        signed == b # <<>> /\ b[1] \in {"+", "-"}
        d == IF signed THEN Tail(b) ELSE b
    IN  IF d = <<>> \/ ~AllDigits(d) THEN Raise("ValueError")
        ELSE VInt(IF signed /\ b[1] = "-" THEN 0 - DigitsVal(d) ELSE DigitsVal(d))

\* float(text) of the builtin, for plain decimal text with at most FracDigits
\* fractional digits: blanks stripped, an optional sign, digits [. digits]
ParseFloat(s) ==
    LET b == strip(s)
        signed == b # <<>> /\ b[1] \in {"+", "-"}
        d == IF signed THEN Tail(b) ELSE b
        parts == split(d, ".")
        ip == parts[1]
        fp == IF Len(parts) = 2 THEN parts[2] ELSE <<>>
        ok == /\ Len(parts) <= 2
              /\ AllDigits(ip) /\ AllDigits(fp)
              /\ ip \o fp # <<>>
              /\ Len(fp) <= FracDigits
        mag == DigitsVal(ip) * Pow10(FracDigits)
                 + DigitsVal(fp) * Pow10(FracDigits - Len(fp))
    IN  IF ~ok THEN Raise("ValueError")
        ELSE VFloat(IF signed /\ b[1] = "-" THEN 0 - mag ELSE mag)

(***************************************************************************)
(* Command serialisation.                                                  *)
(***************************************************************************)
\* format(value, '.15e') of a float held as f / 10^FracDigits
FormatFloat(f) ==
    LET mag == IF f < 0 THEN 0 - f ELSE f
        ds == NatStr(mag)
        e == IF mag = 0 THEN 0 ELSE Len(ds) - 1 - FracDigits
        ae == IF e < 0 THEN 0 - e ELSE e
        es == IF ae < 10 THEN <<"0">> \o NatStr(ae) ELSE NatStr(ae)
        frac == SubSeq(Tail(ds) \o Zeros(15), 1, 15)
    IN  (IF f < 0 THEN <<"-">> ELSE <<>>)
          \o <<ds[1], ".">> \o frac
          \o <<"e", IF e < 0 THEN "-" ELSE "+">> \o es

format_val(value) ==
    IF value.t = "float" THEN FormatFloat(value.f)
    ELSE IF value.t = "int" THEN IntStr(value.i)
    ELSE value.s

join_args(args) == join(<<" ">>, [i \in 1..Len(args) |-> format_val(args[i])])

S_python == <<"p", "y", "t", "h", "o", "n">>

S_noprint == <<"-", "n", "o", "p", "r", "i", "n", "t">>

S_INVALID == <<"I", "N", "V", "A", "L", "I", "D">>

(***************************************************************************)
(* The transport collaborator (self.pipe, the pytao.tao_pipe module behind *)
(* the minrpc client) and the engine behind it.                            *)
(***************************************************************************)
ScratchLines ==
    { <<"1", ";", "a">>, <<"x", ";", "I", "N", "T", ";", "F", ";", "7">>, S_INVALID }

Buffers == UNION { [1..k -> ScratchLines] : k \in 0..MaxLines }

Commands == { <<VStr(<<"h", "e", "l", "p">>)>>,
              <<VStr(<<"l", "a", "t">>), VInt(1)>>,
              <<VStr(<<"k", "=">>), VFloat(25)>> }

\* the outcomes of one blocking call on the pipe: it answers, or the remote
\* process is found dead (RemoteProcessCrashed), or is already gone
PipeOutcomes ==
    IF remote = "up" THEN {"ok", "RemoteProcessCrashed"} ELSE {"RemoteProcessClosed"}

RemoteAfter(o) == IF o = "RemoteProcessCrashed" THEN "crashed" ELSE remote

IsPythonCmd(cmd) ==
    Len(cmd) >= Len(S_python) /\ SubSeq(cmd, 1, Len(S_python)) = S_python

\* what the engine's scratch buffer may hold after it ran cmd
EngineExec(cmd) == IF IsPythonCmd(cmd) THEN Buffers ELSE {scratch}

\* tao_pipe.scratch_n_lines()
scratch_n_lines == Len(scratch)

\* tao_pipe.scratch_line(k)
scratch_line(k) == IF k \in 1..Len(scratch) THEN scratch[k] ELSE <<>>

CallCommand(cmd, o) == [f |-> "command", cmd |-> cmd, o |-> o]

CallNLines(o) == [f |-> "scratch_n_lines", o |-> o]

CallLine(k, o) == [f |-> "scratch_line", k |-> k, o |-> o]

(***************************************************************************)
(* Output capture (src/pytao/capture.py).  A descriptor of the process     *)
(* refers to a stream (the terminal or file it was started with), to one   *)
(* end of a pipe, or is closed.  Bytes are integers 0..255 and a decoded   *)
(* text is the sequence of its code points.                                *)
(***************************************************************************)
STDOUT == 1

ReadSize == 1024

Closed == [kind |-> "closed", id |-> 0]

Stream(i) == [kind |-> "stream", id |-> i]

\* the read end and the write end of pipe p, named as CaptureIO names them
PipeOut(p) == [kind |-> "pipe_out", id |-> p]

PipeIn(p) == [kind |-> "pipe_in", id |-> p]

Fds == 0..(MaxFds - 1)

\* the descriptor table a process starts with: stdin, stdout, stderr
StdFds == [d \in Fds |-> IF d <= 2 THEN Stream(d) ELSE Closed]

Free(f) == { d \in Fds : f[d] = Closed }

Open(f) == Fds \ Free(f)

Lowest(S) == CHOOSE d \in S : \A e \in S : d <= e

Min(a, b) == IF a <= b THEN a ELSE b

\* os.pipe(): the two lowest free descriptors become the ends of a new pipe p;
\* OSError (EMFILE) when fewer than two are free
os_pipe(f, p) ==
    IF Cardinality(Free(f)) < 2 THEN Raise("OSError")
    ELSE LET r == Lowest(Free(f))
             w == Lowest(Free(f) \ {r})
         IN  [t |-> "pipe", r |-> r, w |-> w,
              fds |-> [f EXCEPT ![r] = PipeOut(p), ![w] = PipeIn(p)]]

\* os.dup(fd): the lowest free descriptor becomes a duplicate of fd; OSError
\* when fd is closed (EBADF) or none is free (EMFILE)
os_dup(f, fd) ==
    IF f[fd] = Closed \/ Free(f) = {} THEN Raise("OSError")
    ELSE LET d == Lowest(Free(f))
         IN  [t |-> "fd", d |-> d, fds |-> [f EXCEPT ![d] = f[fd]]]

\* os.dup2(fd, fd2) for an open fd: fd2 is closed if open, then refers to
\* what fd refers to
os_dup2(f, fd, fd2) == [f EXCEPT ![fd2] = f[fd]]

\* os.read(fd, n) on a pipe holding buf: the bytes returned and those left
os_read(buf, n) ==
    [chunk |-> SubSeq(buf, 1, Min(n, Len(buf))),
     rest |-> SubSeq(buf, Min(n, Len(buf)) + 1, Len(buf))]

\* select.select([fd], [], [], 0) on the read end of pipe p: readable when
\* bytes are buffered, and at end of file (no write end left open)
select_readable(f, ps, p) ==
    ps[p] # <<>> \/ ~ \E d \in Fds : f[d] = PipeIn(p)

\* UTF-8, for code points up to U+07FF (one or two bytes)
IsAscii(b) == b < 128

IsLead2(b) == b \in 194..223

IsCont(b) == b \in 128..191

ValidUtf8(bs) ==
    \A i \in 1..Len(bs) :
       \/ IsAscii(bs[i])
       \/ IsLead2(bs[i]) /\ i < Len(bs) /\ IsCont(bs[i + 1])
       \/ IsCont(bs[i]) /\ i > 1 /\ IsLead2(bs[i - 1])

CodePoint(bs, i) ==
    IF IsAscii(bs[i]) THEN bs[i]
    ELSE (bs[i] - 192) * 64 + (bs[i + 1] - 128)

VUnicode(cps) == [t |-> "unicode", u |-> cps]

\* bytes.decode('utf-8'): the text, or UnicodeDecodeError
decode(bs) ==
    IF ~ValidUtf8(bs) THEN Raise("UnicodeDecodeError")
    ELSE LET NotCont(i) == ~IsCont(bs[i])
             starts == SelectSeq([i \in 1..Len(bs) |-> i], NotCont)
         IN  VUnicode([k \in 1..Len(starts) |-> CodePoint(bs, starts[k])])

\* the attributes of a CaptureIO object; NoAttr for one that is not set
NoAttr == 0 - 1

NoCio == [pipe_out |-> NoAttr, pipe_in |-> NoAttr, fd |-> NoAttr, restore |-> NoAttr]

\* CaptureIO.__init__(fd=STDOUT), given the result pp of os.pipe()
CaptureIO(pp) ==
    [pipe_out |-> pp.r, pipe_in |-> pp.w, fd |-> STDOUT, restore |-> NoAttr]

\* CaptureIO.enter: the new descriptor table and attributes, or OSError
enter(f, c) ==
    LET d == os_dup(f, c.fd)
    IN  IF IsRaise(d) THEN d
        ELSE [t |-> "entered",
              fds |-> os_dup2(d.fds, c.pipe_in, c.fd),
              cio |-> [c EXCEPT !.restore = d.d]]

\* an exit that leaves the descriptor as it is
exit_no_restore(f, c) == [fds |-> f, cio |-> [c EXCEPT !.restore = NoAttr]]

\* CaptureIO.exit (also __exit__): dup2 back, del self.restore
exit(f, c) ==
    [fds |-> os_dup2(f, c.restore, c.fd), cio |-> [c EXCEPT !.restore = NoAttr]]

\* CaptureIO.more_data
more_data(f, ps, c) == select_readable(f, ps, f[c.pipe_out].id)

\* the callables handed to capture(): func writes `bytes` to descriptor 1
\* and then returns, or raises
NoFunc == [bytes |-> <<>>, raises |-> FALSE]

Ascii(n) == [i \in 1..n |-> 97]

\* "", "é" and "hello" as UTF-8
Tails == { <<>>, <<195, 169>>, <<104, 101, 108, 108, 111>> }

RunLengths == { 0, ReadSize - 1, ReadSize, PipeCapacity - 1, PipeCapacity }

Outputs == { Ascii(n) \o tl : n \in RunLengths, tl \in Tails }

Funcs == [bytes : Outputs, raises : BOOLEAN]

\* the frame of a capture() call that has not started
CapFrameIdle ==
    /\ cio = NoCio
    /\ cpc = "idle"
    /\ func = NoFunc
    /\ todo = <<>>
    /\ cout = <<>>
    /\ cret = NoneVal
    /\ fd_before = Closed

CapIdle ==
    /\ fds = StdFds
    /\ pipes = <<>>
    /\ CapFrameIdle

\* capture(func): CaptureIO() and self.enter(), up to the call of func
Capture ==
    /\ cpc = "idle"
    /\ \E f \in Funcs :
         LET pp == os_pipe(fds, Len(pipes) + 1)
         IN  /\ func' = f
             /\ fd_before' = fds[STDOUT]
             /\ IF IsRaise(pp)
                THEN /\ cret' = pp
                     /\ cpc' = "done"
                     /\ UNCHANGED <<fds, pipes, cio, todo>>
                ELSE LET c == CaptureIO(pp)
                         e == enter(pp.fds, c)
                     IN  /\ pipes' = Append(pipes, <<>>)
                         /\ IF IsRaise(e)
                            THEN /\ cret' = e
                                 /\ cpc' = "done"
                                 /\ fds' = pp.fds
                                 /\ cio' = c
                                 /\ todo' = todo
                            ELSE /\ cret' = cret
                                 /\ cpc' = "func"
                                 /\ fds' = e.fds
                                 /\ cio' = e.cio
                                 /\ todo' = f.bytes
    /\ UNCHANGED cout
    /\ UNCHANGED <<chanVars, decVars>>

\* func writes to descriptor 1: as many of its bytes as the pipe has room
\* for; with no room the write blocks
FuncWrite ==
    /\ cpc = "func"
    /\ todo # <<>>
    /\ fds[STDOUT].kind = "pipe_in"
    /\ LET p == fds[STDOUT].id
           n == Min(PipeCapacity - Len(pipes[p]), Len(todo))
       IN  /\ n > 0
           /\ pipes' = [pipes EXCEPT ![p] = @ \o SubSeq(todo, 1, n)]
           /\ todo' = SubSeq(todo, n + 1, Len(todo))
    /\ UNCHANGED <<fds, cio, cpc, func, cout, cret, fd_before>>
    /\ UNCHANGED <<chanVars, decVars>>

\* func returns: __exit__(None, None, None), then self.read() starts
FuncReturn ==
    /\ cpc = "func"
    /\ todo = <<>>
    /\ ~func.raises
    /\ fds' = exit(fds, cio).fds
    /\ cio' = exit(fds, cio).cio
    /\ cout' = <<>>
    /\ cpc' = "read"
    /\ UNCHANGED <<pipes, func, todo, cret, fd_before>>
    /\ UNCHANGED <<chanVars, decVars>>

\* func raises: __exit__(type, value, traceback) returns None, so the
\* exception goes on to the caller of capture()
FuncRaise ==
    /\ cpc = "func"
    /\ todo = <<>>
    /\ func.raises
    /\ fds' = exit(fds, cio).fds
    /\ cio' = exit(fds, cio).cio
    /\ cret' = Raise("Exception")
    /\ cpc' = "done"
    /\ UNCHANGED <<pipes, func, todo, cout, fd_before>>
    /\ UNCHANGED <<chanVars, decVars>>

\* one iteration of the loop of CaptureIO.read
Read ==
    /\ cpc = "read"
    /\ more_data(fds, pipes, cio)
    /\ LET p == fds[cio.pipe_out].id
           r == os_read(pipes[p], ReadSize)
           text == decode(r.chunk)
       IN  /\ pipes' = [pipes EXCEPT ![p] = r.rest]
           /\ IF IsRaise(text)
              THEN /\ cret' = text
                   /\ cpc' = "done"
                   /\ cout' = cout
              ELSE /\ cout' = cout \o text.u
                   /\ UNCHANGED <<cret, cpc>>
    /\ UNCHANGED <<fds, cio, func, todo, fd_before>>
    /\ UNCHANGED <<chanVars, decVars>>

\* the loop of CaptureIO.read ends: capture() returns out
ReadReturn ==
    /\ cpc = "read"
    /\ ~more_data(fds, pipes, cio)
    /\ cret' = VUnicode(cout)
    /\ cpc' = "done"
    /\ UNCHANGED <<fds, pipes, cio, func, todo, cout, fd_before>>
    /\ UNCHANGED <<chanVars, decVars>>

\* the caller takes the result; the CaptureIO object is dropped, the
\* descriptors and pipes of the process stay as they are
CaptureDone ==
    /\ cpc = "done"
    /\ cio' = NoCio
    /\ cpc' = "idle"
    /\ func' = NoFunc
    /\ todo' = <<>>
    /\ cout' = <<>>
    /\ cret' = NoneVal
    /\ fd_before' = Closed
    /\ UNCHANGED <<fds, pipes>>
    /\ UNCHANGED <<chanVars, decVars>>

(***************************************************************************)
(* Tao.command and Tao.python.                                             *)
(***************************************************************************)
\* Tao._log_command: the lines one call hands to the command log
_log_command(command, context) ==
    IF command_log THEN <<context \o <<":", " ">> \o command>> ELSE <<>>

S_command == <<"c", "o", "m", "m", "a", "n", "d">>

\* the transport calls Tao.command makes for cmd; o is the outcome of the send
command_calls_retry(cmd, o) ==
    IF o = "ok" THEN <<CallCommand(cmd, o)>>
    ELSE <<CallCommand(cmd, o), CallCommand(cmd, "RemoteProcessClosed")>>

command_calls(cmd, o) == <<CallCommand(cmd, o)>>

\* the body of Tao.command: join, log, one send; nxt is where the caller
\* continues when the send returned
command(args, nxt) ==
    LET cmd == join_args(args)
    IN  \E o \in PipeOutcomes :
          /\ logged' = logged \o _log_command(cmd, S_command)
          /\ calls' = calls \o command_calls(cmd, o)
          /\ remote' = RemoteAfter(o)
          /\ IF o = "ok"
             THEN /\ scratch' \in EngineExec(cmd)
                  /\ pc' = nxt
                  /\ ret' = NoneVal
             ELSE /\ scratch' = scratch
                  /\ pc' = "done"
                  /\ ret' = Raise(o)

\* tao.command(*args)
Command ==
    /\ pc = "idle"
    /\ \E args \in Commands :
         /\ op' = "command"
         /\ cmd_args' = args
         /\ command(args, "done")
    /\ UNCHANGED <<command_log, n_lines, acc>>
    /\ UNCHANGED decVars
    /\ UNCHANGED capVars

\* the arguments python() passes on to command()
python_args(args) == <<VStr(S_python), VStr(S_noprint)>> \o args

\* tao.python(*args), first round trip: self.command('python', '-noprint', ...)
Python ==
    /\ pc = "idle"
    /\ \E args \in Commands :
         /\ op' = "python"
         /\ cmd_args' = args
         /\ command(python_args(args), "py_count")
    /\ UNCHANGED <<command_log, n_lines, acc>>
    /\ UNCHANGED decVars
    /\ UNCHANGED capVars

\* what python() hands its caller when a sub-call raised e with acc fetched
python_fail_partial(e, fetched) == [t |-> "list", l |-> fetched]

python_fail(e, fetched) == Raise(e)

\* the index python() asks for in iteration n of range(count)
scratch_index_off(n) == n

scratch_index(n) == n + 1

\* where python() continues once `have` of `count` lines are fetched
python_next(count, have) == IF have < count THEN "py_fetch" ELSE "done"

\* second round trip: range(self.pipe.scratch_n_lines())
PythonCount ==
    /\ pc = "py_count"
    /\ \E o \in PipeOutcomes :
         /\ calls' = Append(calls, CallNLines(o))
         /\ remote' = RemoteAfter(o)
         /\ IF o = "ok"
            THEN /\ n_lines' = scratch_n_lines
                 /\ pc' = python_next(scratch_n_lines, 0)
                 /\ ret' = IF scratch_n_lines = 0 THEN VList(<<>>) ELSE ret
            ELSE /\ n_lines' = n_lines
                 /\ pc' = "done"
                 /\ ret' = python_fail(o, acc)
    /\ UNCHANGED <<op, cmd_args, logged, command_log, scratch, acc>>
    /\ UNCHANGED decVars
    /\ UNCHANGED capVars

\* one iteration of the comprehension: self.pipe.scratch_line(n+1).split(';')
PythonFetch ==
    /\ pc = "py_fetch"
    /\ LET k == scratch_index(Len(acc))
       IN  \E o \in PipeOutcomes :
             /\ calls' = Append(calls, CallLine(k, o))
             /\ remote' = RemoteAfter(o)
             /\ IF o = "ok"
                THEN LET got == Append(acc, split(scratch_line(k), ";"))
                     IN  /\ acc' = got
                         /\ pc' = python_next(n_lines, Len(got))
                         /\ ret' = IF Len(got) < n_lines THEN ret ELSE VList(got)
                ELSE /\ acc' = acc
                     /\ pc' = "done"
                     /\ ret' = python_fail(o, acc)
    /\ UNCHANGED <<op, cmd_args, logged, command_log, scratch, n_lines>>
    /\ UNCHANGED decVars
    /\ UNCHANGED capVars

\* the caller takes the result; the next call starts from a clean frame
Return ==
    /\ pc = "done"
    /\ pc' = "idle"
    /\ op' = ""
    /\ cmd_args' = <<>>
    /\ calls' = <<>>
    /\ logged' = <<>>
    /\ n_lines' = 0
    /\ acc' = <<>>
    /\ ret' = NoneVal
    /\ UNCHANGED <<command_log, remote, scratch>>
    /\ UNCHANGED decVars
    /\ UNCHANGED capVars

DecIdle ==
    /\ data = <<>>
    /\ out = NoneVal
    /\ warnings = <<>>

ChanIdle ==
    /\ pc = "idle"
    /\ op = ""
    /\ cmd_args = <<>>
    /\ calls = <<>>
    /\ logged = <<>>
    /\ remote = "up"
    /\ n_lines = 0
    /\ acc = <<>>
    /\ ret = NoneVal

Init ==
    /\ ChanIdle
    /\ scratch = <<>>
    /\ command_log \in BOOLEAN
    /\ DecIdle
    /\ strict = FALSE
    /\ CapIdle

Next == Command \/ Python \/ PythonCount \/ PythonFetch \/ Return

Spec == Init /\ [][Next]_vars

\* the transport calls of a complete python(args) query over n result lines
PythonCalls(args, n) ==
    [i \in 1..(n + 2) |->
        IF i = 1 THEN CallCommand(S_python \o <<" ">> \o S_noprint \o <<" ">>
                                    \o join_args(args), "ok")
        ELSE IF i = 2 THEN CallNLines("ok")
        ELSE CallLine(i - 2, "ok")]

\* what python() returns over the buffer buf when every round trip answers
python_rows(buf) == [i \in 1..Len(buf) |-> split(buf[i], ";")]

(***************************************************************************)
(* OrderedDict: a sequence of entries [k, v] with distinct keys, in        *)
(* insertion order.                                                        *)
(***************************************************************************)
HasKey(d, k) == \E i \in 1..Len(d) : d[i].k = k

KeyIndex(d, k) == CHOOSE i \in 1..Len(d) : d[i].k = k

Get(d, k) == d[KeyIndex(d, k)].v

\* d[k] = v
Put(d, k, v) ==
    IF HasKey(d, k) THEN [d EXCEPT ![KeyIndex(d, k)] = [k |-> k, v |-> v]]
    ELSE Append(d, [k |-> k, v |-> v])

\* d.pop(k, default): the mapping left behind
Remove(d, k) ==
    LET Keep(e) == e.k # k IN SelectSeq(d, Keep)

VDict(d) == [t |-> "dict", d |-> d]

\* the builtin int(v)
PyInt(v) ==
    IF v.t = "int" THEN v
    ELSE IF v.t = "bool" THEN VInt(IF v.b THEN 1 ELSE 0)
    ELSE IF v.t = "str" THEN ParseInt(v.s)
    ELSE IF v.t = "float"
         THEN VInt(IF v.f < 0 THEN 0 - ((0 - v.f) \div Pow10(FracDigits))
                   ELSE v.f \div Pow10(FracDigits))
    ELSE Raise("TypeError")

\* the builtin len(v); a Parameter is a 3-tuple
PyLen(v) ==
    IF v.t = "list" THEN VInt(Len(v.l))
    ELSE IF v.t = "str" THEN VInt(Len(v.s))
    ELSE IF v.t = "Parameter" THEN VInt(3)
    ELSE Raise("TypeError")

(***************************************************************************)
(* The field decoder and the parameter decoder.                            *)
(***************************************************************************)
S_STR == <<"S", "T", "R">>

S_INT == <<"I", "N", "T">>

S_REAL == <<"R", "E", "A", "L">>

S_LOGIC == <<"L", "O", "G", "I", "C">>

S_ENUM == <<"E", "N", "U", "M">>

S_T == <<"T">>

S_F == <<"F">>

Item(k, v) == [t |-> "item", k |-> k, v |-> v]

\* an enum value built from the field's name instead of its raw text
_create_enum_value_named(name, value) == VStr(name)

_create_enum_value(name, value) == VStr(value)

\* Tao._parse_dict_item: (name.lower(), value), or the exception raised
_parse_dict_item(fields) ==
    IF Len(fields) < 2 THEN Raise("ValueError")
    ELSE LET name == fields[1]
             kind == fields[2]
             typed == kind \in {S_STR, S_INT, S_REAL, S_LOGIC, S_ENUM}
         IN  IF typed /\ Len(fields) < 4 THEN Raise("IndexError")
             ELSE LET value ==
                          IF kind = S_STR THEN VStr(fields[4])
                          ELSE IF kind = S_INT THEN ParseInt(fields[4])
                          ELSE IF kind = S_REAL THEN ParseFloat(fields[4])
                          ELSE IF kind = S_LOGIC THEN VBool(fields[4] = S_T)
                          ELSE IF kind = S_ENUM THEN _create_enum_value(name, fields[4])
                          ELSE VStr(fields[2])
                  IN  IF IsRaise(value) THEN value ELSE Item(lower(name), value)

\* Tao._parse_param: (key, Parameter(key, value, vary))
_parse_param(fields) ==
    LET it == _parse_dict_item(fields)
    IN  IF IsRaise(it) THEN it
        ELSE IF Len(fields) < 3 THEN Raise("IndexError")
        ELSE Item(it.k, Parameter(it.k, it.v, fields[3] = S_T))

(***************************************************************************)
(* The array folding pass.                                                 *)
(***************************************************************************)
\* RE_ARRAY = re.compile(r'^(.*)\[(\d+)\]$'): the groups of a match of key
RE_ARRAY(key) ==
    LET n == Len(key)
        Opens == { j \in 1..(n - 2) :
                     /\ key[j] = "["
                     /\ \A i \in (j + 1)..(n - 1) : IsDigit(key[i]) }
    IN  IF n >= 3 /\ key[n] = "]" /\ Opens # {}
        THEN LET j == CHOOSE x \in Opens : TRUE
             IN  [matched |-> TRUE,
                  name |-> SubSeq(key, 1, j - 1),
                  index |-> SubSeq(key, j + 1, n - 1)]
        ELSE [matched |-> FALSE, name |-> <<>>, index |-> <<>>]

\* "Inconsistent array order: Got index {}, expected {}."
OrderWarning(index, expected) ==
    [w |-> "order", index |-> index, expected |-> expected]

\* "Inconsistent array length: adverised as {}, got only {} items."
LengthWarning(count, got) == [w |-> "length", count |-> count, got |-> got]

FoldStart == [result |-> <<>>, arrays |-> {}, i0 |-> <<>>, warn |-> <<>>, exc |-> ""]

\* whether the scan warns for a bracketed key with this index that became
\* element number len of its list
order_check(index, len) == len # 1 /\ DigitsVal(index) # len

\* one iteration of `for key, val in items` (items is a lazy map: an item
\* that fails to decode raises here)
fold_item(st, item) ==
    IF st.exc # "" THEN st
    ELSE IF IsRaise(item) THEN [st EXCEPT !.exc = item.exc]
    ELSE LET m == RE_ARRAY(item.k)
         IN  IF ~m.matched
             THEN [st EXCEPT !.result = Put(st.result, item.k, item.v)]
             ELSE LET r1 == IF HasKey(st.result, m.name) THEN st.result
                            ELSE Put(st.result, m.name, VList(<<>>))
                      l == Get(r1, m.name)
                  IN  IF l.t # "list"
                      THEN [st EXCEPT !.exc = "AttributeError"]
                      ELSE LET l2 == Append(l.l, item.v)
                           IN  [result |-> Put(r1, m.name, VList(l2)),
                                arrays |-> st.arrays \cup {m.name},
                                i0 |-> IF Len(l2) = 1
                                       THEN Put(st.i0, m.name, DigitsVal(m.index))
                                       ELSE st.i0,
                                warn |-> IF order_check(m.index, Len(l2))
                                         THEN Append(st.warn,
                                                     OrderWarning(m.index, Len(l2)))
                                         ELSE st.warn,
                                exc |-> ""]

RECURSIVE fold_scan(_, _)
fold_scan(st, items) ==
    IF items = <<>> THEN st ELSE fold_scan(fold_item(st, items[1]), Tail(items))

\* 'num_' + name + 's'
count_key(name) == <<"n", "u", "m", "_">> \o name \o <<"s">>

\* the mapping after result.pop('num_'+name+'s', 0)
pop_count_kept(result, name) == result

pop_count(result, name) == Remove(result, count_key(name))

\* whether the length check warns
length_check_short_only(count, len) == count > len

length_check(count, len) == count # len

\* one iteration of `for name in arrays`
fold_check(st, name) ==
    IF st.exc # "" THEN st
    ELSE LET key == count_key(name)
             popped == IF HasKey(st.result, key) THEN Get(st.result, key) ELSE VInt(0)
             r1 == pop_count(st.result, name)
             count == PyInt(popped)
         IN  IF IsRaise(count) THEN [st EXCEPT !.result = r1, !.exc = count.exc]
             ELSE IF ~HasKey(r1, name)
                  THEN [st EXCEPT !.result = r1, !.exc = "KeyError"]
             ELSE LET len == PyLen(Get(r1, name))
                  IN  IF IsRaise(len)
                      THEN [st EXCEPT !.result = r1, !.exc = len.exc]
                      ELSE [st EXCEPT
                              !.result = r1,
                              !.warn = IF length_check(count.i, len.i)
                                       THEN Append(st.warn,
                                                   LengthWarning(count.i, len.i))
                                       ELSE st.warn]

RECURSIVE fold_checks(_, _)
fold_checks(st, order) ==
    IF order = <<>> THEN st
    ELSE fold_checks(fold_check(st, order[1]), Tail(order))

\* the orders in which `for name in arrays` may visit a set
Orders(S) ==
    { o \in [1..Cardinality(S) -> S] :
        \A i, j \in 1..Cardinality(S) : i # j => o[i] # o[j] }

\* what the fold hands back: the mapping, or the exception that ended it
fold_return_strict(st) ==
    IF st.exc # "" THEN Raise(st.exc)
    ELSE IF st.warn # <<>> THEN Raise("ValueError")
    ELSE VDict(st.result)

fold_return(st) == IF st.exc # "" THEN Raise(st.exc) ELSE VDict(st.result)

\* _convert_arrays(items), visiting the set `arrays` in the given order:
\* the value returned or raised, and the warnings logged
_convert_arrays(items, order) ==
    LET st == fold_checks(fold_scan(FoldStart, items), order)
    IN  [out |-> fold_return(st), warn |-> st.warn]

\* the array names a scan of items collects
scan_arrays(items) == fold_scan(FoldStart, items).arrays

\* `not data or data[0][0] == 'INVALID'`
is_invalid_empty_only(rows) == rows = <<>>

is_invalid_single_record(rows) ==
    rows = <<>> \/ (Len(rows) = 1 /\ rows[1][1] = S_INVALID)

is_invalid(rows) == rows = <<>> \/ rows[1][1] = S_INVALID

\* map(conv, data) when map builds a list (Python 2): the first failing
\* item raises before the fold starts
FirstRaise(items) ==
    items[CHOOSE i \in 1..Len(items) :
            IsRaise(items[i]) /\ \A j \in 1..(i - 1) : ~IsRaise(items[j])]

decode_and_fold(items, lazy) ==
    IF ~lazy /\ \E i \in 1..Len(items) : IsRaise(items[i])
    THEN { [out |-> FirstRaise(items), warn |-> <<>>] }
    ELSE { _convert_arrays(items, o) : o \in Orders(scan_arrays(items)) }

\* Tao._parse_dict: the possible (value, warnings) outcomes
_parse_dict(rows, lazy) ==
    IF is_invalid(rows) THEN { [out |-> VDict(<<>>), warn |-> <<>>] }
    ELSE decode_and_fold([i \in 1..Len(rows) |-> _parse_dict_item(rows[i])], lazy)

\* Tao._parse_param_dict
_parse_param_dict(rows, lazy) ==
    IF is_invalid(rows) THEN { [out |-> VDict(<<>>), warn |-> <<>>] }
    ELSE decode_and_fold([i \in 1..Len(rows) |-> _parse_param(rows[i])], lazy)

(***************************************************************************)
(* The list and matrix extractors.                                         *)
(***************************************************************************)
\* _parse_list: `[v for i, v in data]`
_parse_list(rows) ==
    IF is_invalid(rows) THEN VList(<<>>)
    ELSE IF \E i \in 1..Len(rows) : Len(rows[i]) # 2 THEN Raise("ValueError")
    ELSE VList([i \in 1..Len(rows) |-> rows[i][2]])

\* a numpy array: its shape and, row by row, its floats (as value * 10^FracDigits)
NdArray(shape, rows) == [t |-> "ndarray", shape |-> shape, rows |-> rows]

CurveFields == 3

\* _parse_array(data, shape). Rows of unequal length make np.array raise
\* ValueError (ragged_raises) or build a 1-d array of tuples, by numpy version.
_parse_array(rows, shape, ragged_raises) ==
    IF is_invalid(rows) THEN NdArray(shape, <<>>)
    ELSE LET vals == [i \in 1..Len(rows) |->
                        [j \in 1..Len(rows[i]) |-> ParseFloat(rows[i][j])]]
         IN  IF \E i \in 1..Len(vals) : \E j \in 1..Len(vals[i]) : IsRaise(vals[i][j])
             THEN Raise("ValueError")
             ELSE LET nums == [i \in 1..Len(vals) |->
                                 [j \in 1..Len(vals[i]) |-> vals[i][j].f]]
                  IN  IF \A i \in 1..Len(nums) : Len(nums[i]) = Len(nums[1])
                      THEN NdArray(<<Len(nums), Len(nums[1])>>, nums)
                      ELSE IF ragged_raises THEN Raise("ValueError")
                      ELSE NdArray(<<Len(nums)>>, nums)

\* arr[:, 1:]
drop_first_column_keep(arr) == arr

drop_first_column(arr) ==
    IF Len(arr.shape) # 2 THEN Raise("IndexError")
    ELSE NdArray(<<arr.shape[1],
                   IF arr.shape[2] >= 1 THEN arr.shape[2] - 1 ELSE 0>>,
                 [i \in 1..Len(arr.rows) |->
                     SubSeq(arr.rows[i], 2, Len(arr.rows[i]))])

\* _parse_curve(data)
_parse_curve(rows, ragged_raises) ==
    LET arr == _parse_array(rows, <<0, CurveFields>>, ragged_raises)
    IN  IF IsRaise(arr) THEN arr ELSE drop_first_column(arr)

(***************************************************************************)
(* The decoding methods of Tao, for a query whose round trips all answer:  *)
(* the engine holds `scratch` as the query's result lines.                 *)
(***************************************************************************)
Query == <<VStr(<<"h", "e", "l", "p">>)>>

Decoded(method, o) ==
    /\ pc = "idle"
    /\ op = ""
    /\ op' = method
    /\ pc' = "done"
    /\ cmd_args' = Query
    /\ calls' = PythonCalls(Query, Len(scratch))
    /\ logged' = _log_command(join_args(python_args(Query)), S_command)
    /\ n_lines' = Len(scratch)
    /\ acc' = python_rows(scratch)
    /\ ret' = VList(python_rows(scratch))
    /\ data' = python_rows(scratch)
    /\ out' = o.out
    /\ warnings' = o.warn
    /\ UNCHANGED <<command_log, remote, scratch, strict>>
    /\ UNCHANGED capVars

NoWarn(v) == [out |-> v, warn |-> <<>>]

\* tao.properties(*qualname)
Properties ==
    \E lazy \in BOOLEAN :
      \E o \in _parse_dict(python_rows(scratch), lazy) : Decoded("properties", o)

\* tao.parameters(*qualname)
Parameters ==
    \E lazy \in BOOLEAN :
      \E o \in _parse_param_dict(python_rows(scratch), lazy) : Decoded("parameters", o)

\* tao.get_list(*qualname)
GetList == Decoded("get_list", NoWarn(_parse_list(python_rows(scratch))))

\* tao.curve_data(name)
CurveData ==
    \E rr \in BOOLEAN :
      Decoded("curve_data", NoWarn(_parse_curve(python_rows(scratch), rr)))

\* tao.get_element_floor(ix_ele): _parse_array with the default shape (0, 0)
ElementFloor ==
    \E rr \in BOOLEAN :
      Decoded("get_element_floor",
              NoWarn(_parse_array(python_rows(scratch), <<0, 0>>, rr)))

(***************************************************************************)
(* Result lines of dictionary-like queries.                                *)
(***************************************************************************)
Line(fields) == join(<<";">>, fields)

S_num_ == <<"n", "u", "m", "_">>

\* the text of array element i: not monotone in i
ElemText(i) == <<LowerCase[((i * 2) % 5) + 1]>>

ElemLine(a, i) ==
    Line(<< <<a, "[">> \o NatStr(i) \o <<"]">>, S_STR,
            IF i % 2 = 1 THEN S_T ELSE S_F, ElemText(i) >>)

CountLine(a, n) == Line(<< S_num_ \o <<a, "s">>, S_INT, S_F, NatStr(n) >>)

DictLines ==
    { ElemLine("C", i) : i \in 1..MaxIndex }
      \cup { CountLine("c", n) : n \in 1..(MaxItems - 1) }
      \cup { ElemLine("d", 1), CountLine("d", 1) }
      \cup { Line(<< <<"X">>, S_REAL, S_T, <<"2", ".", "5">> >>),
             Line(<< <<"c">>, S_INT, S_F, <<"5">> >>),
             S_INVALID }

DictBuffers == UNION { [1..k -> DictLines] : k \in 0..MaxItems }

InitFold ==
    /\ ChanIdle
    /\ scratch \in DictBuffers
    /\ command_log = FALSE
    /\ DecIdle
    /\ strict = FALSE
    /\ CapIdle

NextFold == Properties \/ Parameters

SpecFold == InitFold /\ [][NextFold]_vars

\* the same queries, made by a caller who may wish for either strictness
InitStrict ==
    /\ ChanIdle
    /\ scratch \in DictBuffers
    /\ command_log = FALSE
    /\ DecIdle
    /\ strict \in BOOLEAN
    /\ CapIdle

SpecStrict == InitStrict /\ [][NextFold]_vars

(***************************************************************************)
(* Result lines of list-like and table-like queries.                       *)
(***************************************************************************)
FieldTexts == { <<"1">>, <<"2", ".", "5">> }

RowLines ==
    { Line(f) : f \in UNION { [1..w -> FieldTexts] : w \in 1..(CurveFields + 1) } }
      \cup { S_INVALID }

RowBuffers == UNION { [1..k -> RowLines] : k \in 0..MaxRows }

InitRows ==
    /\ ChanIdle
    /\ scratch \in RowBuffers
    /\ command_log = FALSE
    /\ DecIdle
    /\ strict = FALSE
    /\ CapIdle

NextRows == Properties \/ Parameters \/ GetList \/ CurveData \/ ElementFloor

SpecRows == InitRows /\ [][NextRows]_vars

(***************************************************************************)
(* The field decoder on its own: the engine answers a query with one       *)
(* record name;kind;vary;raw and the decoder is applied to that record.    *)
(***************************************************************************)
ItemNames == { <<"A", "b">>, <<"x">>, <<"K", "[", "1", "]">> }

ItemKinds ==
    { S_STR, S_INT, S_REAL, S_LOGIC, S_ENUM,
      <<"F", "O", "O">>, <<"s", "t", "r">>, <<>> }

ItemRaws ==
    { S_T, S_F, <<"t">>, <<"7">>, <<"-", "2">>, <<"3", ".", "5">>,
      <<"x", " ", "y">>, <<>> }

ItemBuffers ==
    { <<Line(<<n, k, v, r>>)>> :
        n \in ItemNames, k \in ItemKinds, v \in {S_T, S_F}, r \in ItemRaws }

\* self._parse_dict_item(fields) for the first record of the result
ParseDictItem ==
    /\ scratch # <<>>
    /\ Decoded("_parse_dict_item",
               NoWarn(_parse_dict_item(python_rows(scratch)[1])))

\* self._parse_param(fields) for the first record of the result
ParseParam ==
    /\ scratch # <<>>
    /\ Decoded("_parse_param", NoWarn(_parse_param(python_rows(scratch)[1])))

InitItem ==
    /\ ChanIdle
    /\ scratch \in ItemBuffers
    /\ command_log = FALSE
    /\ DecIdle
    /\ strict = FALSE
    /\ CapIdle

NextItem == ParseDictItem \/ ParseParam

SpecItem == InitItem /\ [][NextItem]_vars

(***************************************************************************)
(* Calls of capture(func), one after the other, in a process that starts   *)
(* with its three standard descriptors.                                    *)
(***************************************************************************)
InitCapture ==
    /\ ChanIdle
    /\ scratch = <<>>
    /\ command_log = FALSE
    /\ DecIdle
    /\ strict = FALSE
    /\ CapIdle

NextCapture ==
    Capture \/ FuncWrite \/ FuncReturn \/ FuncRaise \/ Read \/ ReadReturn
      \/ CaptureDone

SpecCapture == InitCapture /\ [][NextCapture]_vars

\* a running call goes on: func writes while the pipe has room and then
\* returns or raises, the read loop iterates, the caller takes the result
SpecCaptureFair == SpecCapture /\ WF_vars(NextCapture)

(***************************************************************************)
(* Properties of the command channel and of the structured query.          *)
(***************************************************************************)
IsPrefix(a, b) == Len(a) <= Len(b) /\ SubSeq(b, 1, Len(a)) = a

S_lat_1 == <<"l", "a", "t", " ", "1">>

S_python_noprint_help ==
    <<"p", "y", "t", "h", "o", "n", " ", "-", "n", "o", "p", "r", "i", "n", "t",
      " ", "h", "e", "l", "p">>

\* C1: a finished Tao.command call has made exactly one transport call, the
\* send of the space-joined command text, and no scratch_n_lines or
\* scratch_line read; it returns None when the send answered and raises the
\* transport's failure, after that single send, when it did not.
C1_CommandOneSendNoRead ==
    (op = "command" /\ pc = "done") =>
        /\ Len(calls) = 1
        /\ calls[1].f = "command"
        /\ calls[1].cmd = join_args(cmd_args)
        /\ (cmd_args = <<VStr(<<"l", "a", "t">>), VInt(1)>> => calls[1].cmd = S_lat_1)
        /\ ret = IF calls[1].o = "ok" THEN NoneVal ELSE Raise(calls[1].o)

C1_Witness ==
    /\ op = "command" /\ pc = "done"
    /\ calls[1].o = "RemoteProcessCrashed"
    /\ ret = Raise("RemoteProcessCrashed")

\* C2: at every point of a Tao.python call the answered transport calls are a
\* prefix of: the send of 'python -noprint <cmd>', the line-count query,
\* then the line fetches 1, 2, ..., N; a call that returns has made all N+2
\* of them and returns the N fetched lines, in index order, each split on ';'.
C2_PythonRoundTrips ==
    (op = "python" /\ (pc = "done" => ~IsRaise(ret))) =>
        /\ IsPrefix(calls, PythonCalls(cmd_args, Len(scratch)))
        /\ (cmd_args = <<VStr(<<"h", "e", "l", "p">>)>>
               => calls[1].cmd = S_python_noprint_help)
        /\ pc = "done" =>
              /\ Len(calls) = Len(scratch) + 2
              /\ ret.t = "list"
              /\ Len(ret.l) = Len(scratch)
              /\ \A i \in 1..Len(scratch) :
                    /\ ret.l[i] = split(scratch[i], ";")
                    /\ (scratch[i] = <<"1", ";", "a">>
                           => ret.l[i] = << <<"1">>, <<"a">> >>)

C2_Witness ==
    /\ op = "python" /\ pc = "done" /\ ret.t = "list"
    /\ Len(scratch) = MaxLines
    /\ Len(calls) = MaxLines + 2
    /\ scratch[1] # scratch[2]

\* C3: in a Tao.python call no transport call follows one that failed, and
\* when a sub-call fails (the send, the line count or the fetch of line k)
\* the call ends raising that failure: the caller gets no list, whatever
\* number of lines was fetched before.
C3_PythonNoPartialResult ==
    op = "python" =>
        /\ \A i \in 1..(Len(calls) - 1) : calls[i].o = "ok"
        /\ (calls[Len(calls)].o # "ok")
              => (pc = "done" /\ ret = Raise(calls[Len(calls)].o))
        /\ (ret.t = "list") => (Len(ret.l) = n_lines /\ calls[Len(calls)].o = "ok")

C3_Witness ==
    /\ op = "python" /\ pc = "done"
    /\ Len(calls) = 4
    /\ calls[4].f = "scratch_line" /\ calls[4].o = "RemoteProcessCrashed"
    /\ Len(acc) = 1
    /\ ret = Raise("RemoteProcessCrashed")

(***************************************************************************)
(* Properties of the array folding pass (properties / parameters).         *)
(***************************************************************************)
Decoders == {"properties", "parameters", "get_list", "curve_data", "get_element_floor"}

ArrayNames == { <<"c">>, <<"d">> }

DKey(i) == lower(data[i][1])

ElemKey(a, n) == a \o <<"[">> \o NatStr(n) \o <<"]">>

NumKey(a) == <<"n", "u", "m", "_">> \o a \o <<"s">>

IsElem(a, i) == \E n \in 0..(MaxIndex + 1) : DKey(i) = ElemKey(a, n)

ElemIndex(a, i) == CHOOSE n \in 0..(MaxIndex + 1) : DKey(i) = ElemKey(a, n)

\* the positions in data of the bracketed keys of a
ElemPos(a) == { i \in 1..Len(data) : IsElem(a, i) }

\* position i holds the Rank(a, i)-th bracketed key of a
Rank(a, i) == Cardinality({ j \in ElemPos(a) : j <= i })

Nth(a, n) == CHOOSE i \in ElemPos(a) : Rank(a, i) = n

NElems(a) == Cardinality(ElemPos(a))

CountPos(a) == { i \in 1..Len(data) : DKey(i) = NumKey(a) }

LastCount(a) == CHOOSE i \in CountPos(a) : \A j \in CountPos(a) : j <= i

\* the advertised count of a: the sibling's value, 0 when there is none
Advertised(a) ==
    IF CountPos(a) = {} THEN 0 ELSE DigitsVal(data[LastCount(a)][4])

\* every record has the four fields name;kind;vary;value
WellFormed == \A i \in 1..Len(data) : Len(data[i]) = 4

\* no plain key is also the name of an array of the record set
NoClash ==
    \A a \in ArrayNames : ElemPos(a) # {} => \A i \in 1..Len(data) : DKey(i) # a

InOrder(a) == \A i \in ElemPos(a) : ElemIndex(a, i) = Rank(a, i)

BadLength(a) == Advertised(a) # NElems(a)

Inconsistent ==
    \E a \in ArrayNames : ElemPos(a) # {} /\ (BadLength(a) \/ ~InOrder(a))

\* a plain key that the fold neither folds nor pops
OtherScalar(i) ==
    /\ \A a \in ArrayNames : ~IsElem(a, i)
    /\ \A a \in ArrayNames : ElemPos(a) # {} => DKey(i) # NumKey(a)

LastOf(i) ==
    CHOOSE j \in 1..Len(data) :
        DKey(j) = DKey(i) /\ \A k \in 1..Len(data) : DKey(k) = DKey(i) => k <= j

\* the decoded value of the plain record at position j
ScalarValue(j) ==
    IF data[j][2] = S_INT THEN VInt(DigitsVal(data[j][4]))
    ELSE VFloat(25 * Pow10(FracDigits - 1))

FoldedExample ==
    VDict(<< [k |-> <<"c">>, v |-> VList(<<VStr(<<"c">>), VStr(<<"e">>)>>)] >>)

ExampleRows ==
    << << <<"n", "u", "m", "_", "c", "s">>, S_INT, S_F, <<"2">> >>,
       << <<"C", "[", "1", "]">>, S_STR, S_T, <<"c">> >>,
       << <<"C", "[", "2", "]">>, S_STR, S_F, <<"e">> >> >>

\* C4: properties() over well-formed records, none of whose plain keys is
\* also an array name: if the bracketed keys of `name` are name[1]..name[N]
\* in that order and every num_<name>s record carries N, the result is a map
\* where name is the list of the N values in encounter order, num_<name>s and
\* every name[i] are absent and every other plain key has its decoded value.
C4_FoldArrays ==
    (op = "properties" /\ pc = "done" /\ WellFormed /\ NoClash) =>
        /\ \A a \in ArrayNames :
             (/\ NElems(a) >= 1
              /\ InOrder(a)
              /\ CountPos(a) # {}
              /\ \A i \in CountPos(a) :
                    data[i][2] = S_INT /\ data[i][4] = NatStr(NElems(a)))
             => /\ out.t = "dict"
                /\ HasKey(out.d, a)
                /\ Get(out.d, a) =
                      VList([n \in 1..NElems(a) |-> VStr(data[Nth(a, n)][4])])
                /\ ~HasKey(out.d, NumKey(a))
                /\ \A k \in 1..Len(out.d) : \A n \in 0..(MaxIndex + 1) :
                      out.d[k].k # ElemKey(a, n)
                /\ \A i \in 1..Len(data) :
                      OtherScalar(i) =>
                         /\ HasKey(out.d, DKey(i))
                         /\ Get(out.d, DKey(i)) = ScalarValue(LastOf(i))
        /\ (data = ExampleRows => out = FoldedExample)

C4_Witness ==
    /\ op = "properties" /\ pc = "done"
    /\ data = ExampleRows
    /\ out = FoldedExample
    /\ warnings = <<>>

\* C5 (as claimed): whenever the n-th bracketed key of a name carries an
\* index other than n (a gap, a reorder, or a first key whose index is not
\* 1), the fold is not silent: it raises or logs at least one warning.
C5_EveryIndexChecked ==
    (op = "properties" /\ pc = "done" /\ WellFormed /\ NoClash) =>
        \A a \in ArrayNames : \A i \in ElemPos(a) :
            ElemIndex(a, i) # Rank(a, i) => (IsRaise(out) \/ warnings # <<>>)

LengthWarnings == { k \in 1..Len(warnings) : warnings[k].w = "length" }

\* C6: after the scan of properties() over well-formed records without a
\* key clash, each array's num_<name>s is gone from the returned map, and a
\* length warning (advertised count, accumulated length) is logged for an
\* array exactly when its sibling is missing or differs from the number of
\* values accumulated; there is one length warning per such array.
C6_LengthChecked ==
    (op = "properties" /\ pc = "done" /\ WellFormed /\ NoClash) =>
        /\ out.t = "dict"
        /\ \A a \in ArrayNames :
             ElemPos(a) # {} =>
                /\ ~HasKey(out.d, NumKey(a))
                /\ (CountPos(a) = {} \/ BadLength(a))
                     <=> (\E k \in LengthWarnings :
                            warnings[k] = LengthWarning(Advertised(a), NElems(a)))
        /\ Cardinality(LengthWarnings) =
             Cardinality({ a \in ArrayNames : ElemPos(a) # {} /\ BadLength(a) })

C6_Witness ==
    /\ op = "properties" /\ pc = "done" /\ WellFormed /\ NoClash
    /\ ElemPos(<<"c">>) # {}
    /\ CountPos(<<"c">>) # {}
    /\ Advertised(<<"c">>) < NElems(<<"c">>)
    /\ out.t = "dict"
    /\ warnings = <<LengthWarning(1, 2)>>

HasSibling == \E a \in ArrayNames : ElemPos(a) # {} /\ CountPos(a) # {}

EmptyResult(m) ==
    IF m \in {"properties", "parameters"} THEN VDict(<<>>)
    ELSE IF m = "get_list" THEN VList(<<>>)
    ELSE IF m = "curve_data" THEN NdArray(<<0, CurveFields - 1>>, <<>>)
    ELSE NdArray(<<0, 0>>, <<>>)

\* C8: for the response [["INVALID"]] and for a response without records,
\* every decoder returns its empty value, without raising or warning: an
\* empty map (properties, parameters), an empty list (get_list), a zero-row
\* matrix of the default shape (0, 0) (get_element_floor) or, for a curve,
\* of the default shape (0, 3) less the index column.
C8_SentinelDecodesEmpty ==
    (op \in Decoders /\ pc = "done"
        /\ (data = <<>> \/ data = << <<S_INVALID>> >>)) =>
        /\ out = EmptyResult(op)
        /\ warnings = <<>>

C8_Witness ==
    /\ op = "curve_data" /\ pc = "done"
    /\ data = << <<S_INVALID>> >>
    /\ out = NdArray(<<0, 2>>, <<>>)

\* C9 (as claimed): a response of several records whose first record starts
\* with "INVALID" is not treated as the sentinel: its result is not the
\* "no data" value.
C9_OnlySingleRecordIsSentinel ==
    (op \in Decoders /\ pc = "done"
        /\ Len(data) >= 2 /\ data[1][1] = S_INVALID) =>
        out # EmptyResult(op)

\* C9 (amended): a response of any number of records whose first record's
\* first field is "INVALID" is treated as "no data", and its result is the
\* very value returned for a response without records; any other response
\* with records is decoded and never yields that value.
C9_FirstRecordIsSentinel ==
    (op \in Decoders /\ pc = "done") =>
        IF data = <<>> \/ data[1][1] = S_INVALID
        THEN out = EmptyResult(op) /\ warnings = <<>>
        ELSE out # EmptyResult(op)

C9_Witness ==
    /\ op = "get_list" /\ pc = "done"
    /\ Len(data) = 2
    /\ data[1] = <<S_INVALID>>
    /\ data[2] = << <<"1">>, <<"2", ".", "5">> >>
    /\ out = VList(<<>>)

Uniform == \A i \in 1..Len(data) : Len(data[i]) = Len(data[1])

Numeric ==
    \A i \in 1..Len(data) : \A j \in 1..Len(data[i]) : data[i][j] \in FieldTexts

\* the float of a field text, as value * 10^FracDigits
FloatOf(f) == IF f = <<"1">> THEN Pow10(FracDigits) ELSE 25 * Pow10(FracDigits - 1)

Dispatched(kind, raw) ==
    IF kind = S_STR THEN VStr(raw)
    ELSE IF kind = S_INT THEN ParseInt(raw)
    ELSE IF kind = S_REAL THEN ParseFloat(raw)
    ELSE IF kind = S_LOGIC THEN (IF raw = S_T THEN VBool(TRUE) ELSE VBool(FALSE))
    ELSE IF kind = S_ENUM THEN VStr(raw)
    ELSE VStr(kind)

\* C11: for every record (name, kind, vary, raw) the field decoder dispatches
\* on the kind tag: STR gives raw unchanged, INT the parsed integer, REAL the
\* parsed float, LOGIC true exactly when raw is "T" and false for every other
\* raw text, ENUM raw unchanged, and any other kind tag gives the kind tag
\* itself without raising; the returned name is the lower-cased field 0.  A
\* raw text that int() or float() rejects makes the decoder raise ValueError.
C11_DecoderDispatch ==
    (op = "_parse_dict_item" /\ pc = "done" /\ Len(data[1]) = 4) =>
        LET name == data[1][1]
            kind == data[1][2]
            raw == data[1][4]
            value == Dispatched(kind, raw)
        IN  /\ IsRaise(value) => out = Raise("ValueError")
            /\ ~IsRaise(value) =>
                  /\ out = Item(lower(name), value)
                  /\ \A i \in 1..Len(name) :
                        \A j \in 1..26 :
                          name[i] = UpperCase[j] => out.k[i] = LowerCase[j]
            /\ kind \notin {S_INT, S_REAL} => ~IsRaise(out)

C11_Witness ==
    /\ op = "_parse_dict_item" /\ pc = "done"
    /\ data = << << <<"A", "b">>, S_ENUM, S_T, <<"x", " ", "y">> >> >>
    /\ out = Item(<<"a", "b">>, VStr(<<"x", " ", "y">>))

(***************************************************************************)
(* Properties of the parameter decoder.                                    *)
(***************************************************************************)
\* C14 (as claimed): parameters() over well-formed records, none of whose
\* plain keys is also an array name: if the bracketed keys of `name` are
\* name[1]..name[N] in that order and a sibling num_<name>s carries N, the
\* call does not raise and returns a map where name is the list of the N
\* Parameter values, each with its own value and vary flag, in encounter
\* order, and num_<name>s is absent.
C14_ParametersFoldArrays ==
    (op = "parameters" /\ pc = "done" /\ WellFormed /\ NoClash) =>
        \A a \in ArrayNames :
            (/\ NElems(a) >= 1
             /\ InOrder(a)
             /\ CountPos(a) # {}
             /\ \A i \in CountPos(a) :
                   data[i][2] = S_INT /\ data[i][4] = NatStr(NElems(a)))
            => /\ ~IsRaise(out)
               /\ out.t = "dict"
               /\ HasKey(out.d, a)
               /\ Get(out.d, a).t = "list"
               /\ Len(Get(out.d, a).l) = NElems(a)
               /\ \A n \in 1..NElems(a) :
                     /\ Get(out.d, a).l[n].t = "Parameter"
                     /\ Get(out.d, a).l[n].value = VStr(data[Nth(a, n)][4])
                     /\ Get(out.d, a).l[n].vary = (data[Nth(a, n)][3] = S_T)
               /\ ~HasKey(out.d, NumKey(a))

(***************************************************************************)
(* Properties of the output capture.                                       *)
(***************************************************************************)
\* func was called: neither os.pipe() nor os.dup() failed before it
FuncRan == cpc \in {"func", "read"} \/ (cpc = "done" /\ cret # Raise("OSError"))

\* C12: while func runs, and only then, descriptor 1 refers to the write end
\* of the capture pipe; once capture(func) has ended, by func returning or by
\* func raising, descriptor 1 refers again to what it referred to before the
\* call, and an exception of func reaches the caller of capture().
C12_StdoutRestored ==
    /\ cpc = "func" =>
          /\ fds[cio.pipe_in].kind = "pipe_in"
          /\ fds[STDOUT] = fds[cio.pipe_in]
          /\ fds[STDOUT].id = Len(pipes)
    /\ cpc # "func" => fds[STDOUT].kind # "pipe_in"
    /\ cpc \in {"read", "done"} =>
          /\ fds[STDOUT] = fd_before
          /\ fd_before = Stream(STDOUT)
    /\ cpc = "idle" => fds[STDOUT] = Stream(STDOUT)
    /\ (cpc = "done" /\ FuncRan /\ func.raises) => cret = Raise("Exception")
    /\ (cpc \in {"read", "done"} /\ FuncRan /\ ~func.raises) =>
          cret # Raise("Exception")

C12_Witness ==
    /\ cpc = "done"
    /\ func.raises
    /\ func.bytes = <<104, 101, 108, 108, 111>>
    /\ cret = Raise("Exception")
    /\ Len(pipes) = 2
    /\ pipes[2] = func.bytes
    /\ fds[STDOUT] = Stream(STDOUT)

\* C13 (as claimed): the duplicate of descriptor 1 and both ends of the pipe
\* are released on every exit path: whenever no capture() call is under way,
\* after any sequence of calls that returned or raised, the set of open
\* descriptors is the set that was open before the first call.
C13_DescriptorsReleased ==
    cpc \in {"idle", "done"} => Open(fds) = Open(StdFds)

\* nothing is read from the pipe while func runs
ReadsOnlyAfterFunc ==
    /\ cpc = "func" => pipes[Len(pipes)] \o todo = func.bytes
    /\ cpc = "read" => fds[STDOUT] = fd_before

\* a call whose func wrote at most the pipe's capacity and returned ends by
\* returning the text func wrote
ReturnsAllWritten ==
    (cpc = "done" /\ FuncRan /\ ~func.raises /\ Len(func.bytes) <= PipeCapacity)
        => cret = decode(func.bytes)

\* a func that writes more than the pipe's capacity never gets past its write
BlocksOverCapacity ==
    (FuncRan /\ Len(func.bytes) > PipeCapacity) => (cpc = "func" /\ todo # <<>>)

\* a call whose func writes at most the pipe's capacity ends
EndsWithinCapacity ==
    (cpc = "func" /\ Len(func.bytes) <= PipeCapacity) ~> (cpc = "done")

\* C15 (as claimed): capture(func) reads the pipe only after func has
\* returned and descriptor 1 is restored, never while func runs; when func
\* writes at most the pipe's capacity capture returns everything func wrote,
\* and when func writes more its write blocks and capture never returns.
C15_ReadAfterFuncReturnsAll ==
    /\ ReadsOnlyAfterFunc
    /\ ReturnsAllWritten
    /\ BlocksOverCapacity

====
